---- MODULE Spec2Model ----
(***************************************************************************)
(* Model of src/backtest_functions.py: the module-level `position`        *)
(* variable, update_position, trend_following, max_drawdown,              *)
(* return_metrics and grid_search.                                        *)
(*                                                                        *)
(* Numbers.  Prices are positive integers.  Every float the code derives  *)
(* from them by +, -, *, / (moving averages, percent changes, cumulative  *)
(* returns, drawdowns) is modelled as an exact rational or NaN; IEEE-754  *)
(* comparisons with NaN are false.  The results of `**` and of sqrt/std   *)
(* in return_metrics are not rational: they are modelled by their class   *)
(* (NaN, infinite, negative, zero, positive), which is exact, and the     *)
(* magnitude of a finite non-zero objective value is drawn from Mags.     *)
(***************************************************************************)
EXTENDS Integers, Sequences, FiniteSets, TLC

\* ------------------------------------------------------------------ bounds
MaxLen == 4        \* longest price table (rows)
MaxPrice == 4      \* prices are 1..MaxPrice
MaxWindow == 3     \* windows are 1..MaxWindow
MaxMag == 2        \* magnitudes of a finite non-zero objective value
MaxParLen == 2     \* longest price table of two interleaved calls
MaxRetries == 3    \* largest `retries` argument of download_crypto_data
MaxDelay == 1      \* largest `delay` argument, in units of time
MaxTs == 2         \* fetched timestamps are 0..MaxTs
MaxQuote == 2      \* fetched prices are 1..MaxQuote
MaxRows == 3       \* most rows in a fetched payload

Prices == 1..MaxPrice
Windows == 1..MaxWindow
Mags == 1..MaxMag
Main == "main"
Threads == {"main", "worker"}

RECURSIVE SeqsUpTo(_, _)
SeqsUpTo(S, n) ==
    IF n = 0 THEN {<<>>}
    ELSE LET shorter == SeqsUpTo(S, n - 1)
         IN  shorter \cup {Append(s, x) : s \in {q \in shorter : Len(q) = n - 1}, x \in S}

\* price tables a caller can pass: 1..MaxLen rows, one price column
PriceSeries == SeqsUpTo(Prices, MaxLen) \ {<<>>}

\* the tables two interleaved calls are given
ParSeries == {p \in PriceSeries : Len(p) <= MaxParLen}

\* ------------------------------------------------------------------ floats
RECURSIVE GCD(_, _)
GCD(a, b) == IF b = 0 THEN a ELSE GCD(b, a % b)

Abs(x) == IF x < 0 THEN -x ELSE x

NaN == [nan |-> TRUE, n |-> 0, d |-> 1]

\* the rational n/d (d > 0) in lowest terms
Rat(n, d) ==
    LET g == GCD(Abs(n), d)
    IN  [nan |-> FALSE, n |-> n \div g, d |-> d \div g]

Num(i) == [nan |-> FALSE, n |-> i, d |-> 1]

IsNaN(a) == a.nan

\* IEEE comparisons: false as soon as one side is NaN
FGt(a, b) == ~a.nan /\ ~b.nan /\ a.n * b.d > b.n * a.d
FLe(a, b) == ~a.nan /\ ~b.nan /\ a.n * b.d <= b.n * a.d
FEq(a, b) == ~a.nan /\ ~b.nan /\ a.n * b.d = b.n * a.d

FMul(a, b) == IF a.nan \/ b.nan THEN NaN ELSE Rat(a.n * b.n, a.d * b.d)
FAdd(a, b) == IF a.nan \/ b.nan THEN NaN ELSE Rat(a.n * b.d + b.n * a.d, a.d * b.d)
FSub(a, b) == IF a.nan \/ b.nan THEN NaN ELSE Rat(a.n * b.d - b.n * a.d, a.d * b.d)
\* 1 + a and 1 - a
OnePlus(a) == IF a.nan THEN NaN ELSE [nan |-> FALSE, n |-> a.d + a.n, d |-> a.d]
OneMinus(a) == IF a.nan THEN NaN ELSE [nan |-> FALSE, n |-> a.d - a.n, d |-> a.d]
\* a / b for b > 0 (the only divisions the series code makes)
FQuot(a, b) == IF a.nan \/ b.nan THEN NaN ELSE Rat(a.n * b.d, a.d * b.n)

\* ------------------------------------------------------------ indicators
RECURSIVE SumRange(_, _, _)
SumRange(p, lo, hi) == IF lo > hi THEN 0 ELSE p[hi] + SumRange(p, lo, hi - 1)

\* df[price_col].rolling(window).mean() at row t: NaN until `window` rows
RollingMean(p, w, t) ==
    IF t < w THEN NaN ELSE Rat(SumRange(p, t - w + 1, t), w)

\* df[price_col].ewm(span=window).mean() (adjust=True), from row t on:
\*   sum_i (1-a)^i p[t-i] / sum_i (1-a)^i,  a = 2/(w+1), 1-a = (w-1)/(w+1)
\* num and den are the two sums at row t-1 scaled by (w+1)^(t-2), and
\* pw = (w+1)^(t-1)
RECURSIVE EwmScan(_, _, _, _, _, _, _)
EwmScan(p, w, t, num, den, pw, acc) ==
    IF t > Len(p) THEN acc
    ELSE LET n2 == (w - 1) * num + pw * p[t]
             d2 == (w - 1) * den + pw
         IN  EwmScan(p, w, t + 1, n2, d2, pw * (w + 1), Append(acc, Rat(n2, d2)))

EwmMean(p, w) == EwmScan(p, w, 1, 0, 0, 1, <<>>)

\* ------------------------------------------------------- update_position
\* variant: entry tested as "not (close <= average)"
UpdatePositionNotLe(pos, close, sma, ema) ==
    IF pos = 0
    THEN IF ~FLe(close, sma) /\ ~FLe(close, ema) THEN 1 ELSE 0
    ELSE IF pos = 1
         THEN IF FLe(close, sma) \/ FLe(close, ema) THEN 0 ELSE 1
         ELSE pos

\* variant: entry tested with >=
UpdatePositionGe(pos, close, sma, ema) ==
    IF pos = 0
    THEN IF (FGt(close, sma) \/ FEq(close, sma))
            /\ (FGt(close, ema) \/ FEq(close, ema)) THEN 1 ELSE 0
    ELSE IF pos = 1
         THEN IF FLe(close, sma) \/ FLe(close, ema) THEN 0 ELSE 1
         ELSE pos

\* variant: the position is a count of entry signals
UpdatePositionCount(pos, close, sma, ema) ==
    IF FGt(close, sma) /\ FGt(close, ema) THEN pos + 1
    ELSE IF pos > 0 THEN pos - 1 ELSE pos

\* the value update_position leaves in `position` and returns, from the
\* value it finds there and the row's close, SMA and EMA
UpdatePosition(pos, close, sma, ema) ==
    IF pos = 0
    THEN IF FGt(close, sma) /\ FGt(close, ema) THEN 1 ELSE 0
    ELSE IF pos = 1
         THEN IF FLe(close, sma) \/ FLe(close, ema) THEN 0 ELSE 1
         ELSE pos

\* ------------------------------------------------------- trend_following
\* variant: the apply result used without the shift
ShiftNone(s) == [t \in 1..Len(s) |-> Num(s[t])]

\* variant: the shift fills the first entry with 0
ShiftFillZero(s) == [t \in 1..Len(s) |-> IF t = 1 THEN Num(0) ELSE Num(s[t - 1])]

\* Series.shift(1) of the apply result: NaN first, then the previous value
Shift(s) == [t \in 1..Len(s) |-> IF t = 1 THEN NaN ELSE Num(s[t - 1])]

\* df[price_col].pct_change()
PctChange(p) ==
    [t \in 1..Len(p) |-> IF t = 1 THEN NaN ELSE Rat(p[t] - p[t - 1], p[t - 1])]

\* df[strategy_col] = df[price_col].pct_change() * df['position']
StrategyReturns(p, pos) ==
    [t \in 1..Len(p) |-> FMul(PctChange(p)[t], pos[t])]

\* variant: the global is not reset
ResetKeep(old) == old

\* the value `position` has when the row-wise apply starts (lines 32-33)
Reset(old) == 0

\* lines 37-40: the copy with the SMA_w and EMA_w columns added
WithIndicators(prices, w) ==
    [price |-> prices,
     SMA |-> [i \in 1..Len(prices) |-> RollingMean(prices, w, i)],
     EMA |-> EwmMean(prices, w),
     position |-> <<>>,
     strategy |-> <<>>,
     cumulative |-> <<>>,
     drawdown |-> <<>>]

\* line 43: what df.apply(update_position, axis=1) adds to the values acc
\* returned for the rows before r, `position` being pos as row r starts and
\* nothing else writing it
RECURSIVE ApplyRows(_, _, _, _)
ApplyRows(pos, d, r, acc) ==
    IF r > Len(d.price) THEN acc
    ELSE LET new == UpdatePosition(pos, Num(d.price[r]), d.SMA[r], d.EMA[r])
         IN  ApplyRows(new, d, r + 1, Append(acc, new))

\* lines 43-45: the 'position' and strategy columns from the apply result
WithStrategy(d, sig) ==
    LET pos == Shift(sig)
    IN  [d EXCEPT !.position = pos, !.strategy = StrategyReturns(d.price, pos)]

\* one whole, uninterrupted trend_following call: the table it returns,
\* the apply result, and the value it leaves in `position`
TrendFollowing(old, prices, w) ==
    LET d == WithIndicators(prices, w)
        sig == ApplyRows(Reset(old), d, 1, <<>>)
    IN  [df |-> WithStrategy(d, sig),
         applied |-> sig,
         position |-> sig[Len(sig)]]

\* ---------------------------------------------------------- max_drawdown
\* lines 51 and 67: (1 + df[strategy_col]).cumprod() - 1, from row t on;
\* cumprod leaves a NaN entry NaN and carries the product `run` over it
RECURSIVE CumRetScan(_, _, _, _)
CumRetScan(s, t, run, acc) ==
    IF t > Len(s) THEN acc
    ELSE IF IsNaN(s[t]) THEN CumRetScan(s, t + 1, run, Append(acc, NaN))
    ELSE LET r == FMul(run, OnePlus(s[t]))
         IN  CumRetScan(s, t + 1, r, Append(acc, FSub(r, Num(1))))

CumulativeReturn(s) == CumRetScan(s, 1, Num(1), <<>>)

\* the larger of a running maximum m (NaN: none yet) and x, NaN skipped
MaxSkipNaN(m, x) ==
    IF IsNaN(x) THEN m
    ELSE IF IsNaN(m) \/ FGt(x, m) THEN x ELSE m

\* Series.cummax() from row t on: NaN stays NaN, elsewhere the running
\* maximum of the entries that are not NaN
RECURSIVE CumMaxScan(_, _, _, _)
CumMaxScan(c, t, m, acc) ==
    IF t > Len(c) THEN acc
    ELSE LET m2 == MaxSkipNaN(m, c[t])
         IN  CumMaxScan(c, t + 1, m2,
                        Append(acc, IF IsNaN(c[t]) THEN NaN ELSE m2))

CumMax(c) == CumMaxScan(c, 1, NaN, <<>>)

\* variant: the quotient taken the other way round
DrawdownOfInverted(c, cmax) ==
    [t \in 1..Len(c) |->
        OneMinus(FQuot(OnePlus(cmax[t]), OnePlus(c[t])))]

\* line 52: 1 - (1 + cum) / (1 + cum.cummax())
DrawdownOf(c, cmax) ==
    [t \in 1..Len(c) |->
        OneMinus(FQuot(OnePlus(c[t]), OnePlus(cmax[t])))]

Drawdown(c) == DrawdownOf(c, CumMax(c))

\* line 53: Series.max() skips NaN and is NaN for an all-NaN series
RECURSIVE SeriesMaxFrom(_, _, _)
SeriesMaxFrom(s, t, m) ==
    IF t > Len(s) THEN m ELSE SeriesMaxFrom(s, t + 1, MaxSkipNaN(m, s[t]))

SeriesMax(s) == SeriesMaxFrom(s, 1, NaN)

\* -------------------------------------------------------- return_metrics
\* A float that is not a rational of the model, by class: k is "nan",
\* "inf" or "num" and s its sign (-1, 0, 1).
CNaN == [k |-> "nan", s |-> 0]
CInf(sg) == [k |-> "inf", s |-> sg]
CNum(sg) == [k |-> "num", s |-> sg]

Sign(a) == IF a.n > 0 THEN 1 ELSE IF a.n < 0 THEN -1 ELSE 0

ClassOf(a) == IF IsNaN(a) THEN CNaN ELSE CNum(Sign(a))

\* numpy float64 a / b: x/0 is inf of x's sign, 0/0 and inf/inf are NaN,
\* no exception is raised (the zeros that occur are +0)
CDiv(a, b) ==
    IF a.k = "nan" \/ b.k = "nan" THEN CNaN
    ELSE IF b.k = "inf" THEN (IF a.k = "inf" THEN CNaN ELSE CNum(0))
    ELSE IF b.s = 0 THEN (IF a.s = 0 THEN CNaN ELSE CInf(a.s))
    ELSE IF a.k = "inf" THEN CInf(a.s * b.s)
    ELSE CNum(a.s * b.s)

\* lines 78-82: (v_final / v_initial) ** (1 / n_years) - 1 has the sign of
\* the total performance (v_final / v_initial = 1 + total > 0, exponent > 0)
AnnualizedReturn(total) == ClassOf(total)

\* line 84: df[price_col].std() * sqrt(h); the sample standard deviation
\* is NaN for fewer than two rows and 0 exactly when all prices are equal
AnnualizedVol(p) ==
    IF Len(p) < 2 THEN CNaN
    ELSE IF \A i \in 1..Len(p) : p[i] = p[1] THEN CNum(0)
    ELSE CNum(1)

\* lines 67 and 51-52: the columns return_metrics and max_drawdown add to
\* the table they are given
WithMetrics(d) ==
    LET cum == CumulativeReturn(d.strategy)
    IN  [d EXCEPT !.cumulative = cum, !.drawdown = Drawdown(cum)]

\* the tuple return_metrics returns (line 92), read off the table d with
\* its added columns
MetricsOf(d) ==
    LET total == d.cumulative[Len(d.cumulative)]
        ar == AnnualizedReturn(total)
        vol == AnnualizedVol(d.price)
    IN  [total_performance |-> total,
         annualized_return |-> ar,
         annualized_vol |-> vol,
         sharpe_ratio |-> CDiv(ar, vol),
         max_dd |-> SeriesMax(d.drawdown)]

ReturnMetrics(d) == MetricsOf(WithMetrics(d))

\* numpy float64 a / b emits a RuntimeWarning when it divides a number by
\* zero or finds an invalid operation (0/0, inf/inf); a NaN operand does not
DivisionWarns(a, b) ==
    \/ a.k # "nan" /\ b.k = "num" /\ b.s = 0
    \/ a.k = "inf" /\ b.k = "inf"

\* the only diagnostic return_metrics can emit on table d: the warning of
\* the division of line 85 (the function has no raise, print or log)
ReturnMetricsWarns(d) ==
    DivisionWarns(MetricsOf(d).annualized_return, MetricsOf(d).annualized_vol)

\* the only exception return_metrics raises on a table of prices: the
\* IndexError of .iloc[-1] (line 79) on a table without rows
ReturnMetricsRaises(d) == Len(d.price) = 0

\* ----------------------------------------------------------- grid_search
\* An objective value: NaN, an infinity (v its sign) or a finite number v.
ONaN == [k |-> "nan", v |-> 0]
NegInf == [k |-> "inf", v |-> -1]
PosInf == [k |-> "inf", v |-> 1]

\* float `>`: false when either side is NaN
OGt(a, b) ==
    /\ a.k # "nan"
    /\ b.k # "nan"
    /\ IF a.k = "inf" THEN a.v = 1 /\ ~(b.k = "inf" /\ b.v = 1)
       ELSE IF b.k = "inf" THEN b.v = -1
       ELSE a.v > b.v

\* line 110: sharpe_ratio / max_drawdown, by class
ObjectiveClass(metrics) == CDiv(metrics.sharpe_ratio, ClassOf(metrics.max_dd))

\* the objective value of class c, of magnitude m when it is finite and
\* not zero
ObjectiveValue(c, m) ==
    IF c.k = "nan" THEN ONaN
    ELSE IF c.k = "inf" THEN [k |-> "inf", v |-> c.s]
    ELSE [k |-> "num", v |-> c.s * m]

\* range-like window_range arguments: increasing windows, possibly none
WindowRanges ==
    {r \in SeqsUpTo(Windows, MaxWindow) :
        \A i \in 1..Len(r) - 1 : r[i] < r[i + 1]}

\* line 103: optimal_window = None
None == 0

\* variant: the comparison is >=
BetterGe(obj, best) == OGt(obj, best) \/ obj = best

\* variant: the comparison is "not (objective <= maximum)"
BetterNotLe(obj, best) == ~(OGt(best, obj) \/ (obj = best /\ obj.k # "nan"))

\* line 113: objective_value > max_objective_value
Better(obj, best) == OGt(obj, best)


\* ------------------------------------------------- download_crypto_data
\* length of a day in the unit of the fetched timestamps (line 37: 'ms')
DayLen == 2

\* lines 37-38: the '%Y-%m-%d' date a timestamp falls on
DateOf(ts) == ts \div DayLen

\* data["prices"]: [timestamp, price] pairs in the order received
RawRows == (0..MaxTs) \X (1..MaxQuote)
Payloads == SeqsUpTo(RawRows, MaxRows)

\* lines 34-38: the Timestamp column rewritten as dates
WithDates(raw) == [i \in 1..Len(raw) |-> <<DateOf(raw[i][1]), raw[i][2]>>]

\* variant: keep='first'
DropDuplicatesFirst(rows) ==
    SelectSeq([i \in 1..Len(rows) |->
                  IF \E j \in 1..i - 1 : rows[j][1] = rows[i][1]
                  THEN <<>> ELSE rows[i]],
              LAMBDA r : r # <<>>)

\* line 39: drop_duplicates(subset=['Timestamp'], keep='last'): a row stays
\* unless a later row has its date; the order of the rows is kept
DropDuplicates(rows) ==
    SelectSeq([i \in 1..Len(rows) |->
                  IF \E j \in i + 1..Len(rows) : rows[j][1] = rows[i][1]
                  THEN <<>> ELSE rows[i]],
              LAMBDA r : r # <<>>)

\* lines 34-41: the table built from a payload, rows of <<date, price>>
Ingest(raw) == DropDuplicates(WithDates(raw))

\* what an attempt can end in: success, one of the four request errors of
\* lines 48-55, or an exception of another kind (a KeyError of line 34)
RequestErrors == {"http", "connection", "timeout", "request"}
Outcomes == {"ok", "other"} \cup RequestErrors

\* variant: a bare except that catches everything
RetriedAny(kind) == TRUE

\* lines 48-55: the exceptions the except clauses catch
Retried(kind) == kind \in RequestErrors

\* variant: one pass too many
MoreAttemptsInclusive(n, r) == n <= r

\* line 26: for _ in range(retries), n passes being made
MoreAttempts(n, r) == n < r


VARIABLES
    position,   \* the module-level variable of line 6
    pc,         \* per thread: where its trend_following call stands
    arg,        \* per thread: the caller's table (its price column)
    window,     \* per thread: the window argument
    df,         \* per thread: the local copy with the derived columns
    row,        \* per thread: next row the apply hands to update_position
    applied,    \* per thread: values update_position has returned so far
    found,      \* per thread: the `position` its direct call found on entry
    input,      \* per thread: the table object the caller passed in
    gsPc,       \* where the grid_search call of the main thread stands
    data,       \* grid_search: the caller's table (its price column)
    window_range,           \* grid_search: the candidate windows
    idx,                    \* grid_search: next candidate of the for loop
    optimal_window,         \* grid_search local
    max_objective_value,    \* grid_search local
    results,                \* grid_search local: [window, objective] pairs
    returned,               \* grid_search: the values its return hands back
    dlPc,           \* where the download_crypto_data call stands
    retries,        \* download_crypto_data: the retries argument
    delay,          \* download_crypto_data: the delay argument
    attempts,       \* passes of the for loop started (requests.get calls)
    waited,         \* time spent in time.sleep
    lastOutcome,    \* how the latest attempt ended
    fetched,        \* data["prices"] of the successful attempt
    dlResult,       \* what the call handed to its caller
    csv             \* the file '{crypto_id}.csv'

tfVars == <<pc, arg, window, df, row, applied, found, input>>
gsVars == <<gsPc, data, window_range, idx, optimal_window,
            max_objective_value, results, returned>>
dlVars == <<dlPc, retries, delay, attempts, waited, lastOutcome, fetched,
            dlResult, csv>>
vars == <<position, tfVars, gsVars, dlVars>>

Pending == [kind |-> "pending", table |-> <<>>]
NoFile == [exists |-> FALSE, rows |-> <<>>]

EmptyDf == [price |-> <<>>, SMA |-> <<>>, EMA |-> <<>>,
            position |-> <<>>, strategy |-> <<>>,
            cumulative |-> <<>>, drawdown |-> <<>>]

\* a caller's table: the price column alone
PriceTable(prices) == [EmptyDf EXCEPT !.price = prices]

\* variant: no copy, `df` is the caller's object
CallerTableAliased(own, work) == work

\* line 35: df = df.copy() rebinds `df` to a new object, so the caller's
\* table `own` stays as it is whatever is written to the working table
CallerTable(own, work) == own

Init ==
    /\ position = 0
    /\ pc = [t \in Threads |-> "idle"]
    /\ arg = [t \in Threads |-> <<>>]
    /\ window = [t \in Threads |-> 1]
    /\ df = [t \in Threads |-> EmptyDf]
    /\ row = [t \in Threads |-> 1]
    /\ applied = [t \in Threads |-> <<>>]
    /\ found = [t \in Threads |-> 0]
    /\ input = [t \in Threads |-> EmptyDf]
    /\ gsPc = "idle"
    /\ data = <<>>
    /\ window_range = <<>>
    /\ idx = 1
    /\ optimal_window = None
    /\ max_objective_value = NegInf
    /\ results = <<>>
    /\ returned = <<>>
    /\ dlPc = "idle"
    /\ retries = 0
    /\ delay = 0
    /\ attempts = 0
    /\ waited = 0
    /\ lastOutcome = "none"
    /\ fetched = <<>>
    /\ dlResult = Pending
    /\ csv = NoFile

\* lines 32-40: reset the global, copy the table, add SMA_w and EMA_w
TrendFollowingEnter(t, prices, w) ==
    /\ position' = Reset(position)
    /\ pc' = [pc EXCEPT ![t] = "apply"]
    /\ arg' = [arg EXCEPT ![t] = prices]
    /\ window' = [window EXCEPT ![t] = w]
    /\ df' = [df EXCEPT ![t] = WithIndicators(prices, w)]
    /\ row' = [row EXCEPT ![t] = 1]
    /\ applied' = [applied EXCEPT ![t] = <<>>]
    /\ found' = [found EXCEPT ![t] = position]
    /\ input' = [input EXCEPT ![t] = CallerTable(PriceTable(prices), df'[t])]

\* a caller invokes trend_following(df, price_col, strategy_col, window)
TrendFollowingCall(t) ==
    /\ pc[t] = "idle"
    /\ gsPc = "idle"
    /\ \E prices \in PriceSeries, w \in Windows :
          TrendFollowingEnter(t, prices, w)
    /\ UNCHANGED <<gsVars, dlVars>>

\* line 43, one row of df.apply(update_position, axis=1)
UpdatePositionStep(t) ==
    /\ pc[t] = "apply"
    /\ row[t] <= Len(df[t].price)
    /\ LET r == row[t]
           new == UpdatePosition(position, Num(df[t].price[r]),
                                 df[t].SMA[r], df[t].EMA[r])
       IN  /\ position' = new
           /\ applied' = [applied EXCEPT ![t] = Append(@, new)]
    /\ row' = [row EXCEPT ![t] = @ + 1]
    /\ UNCHANGED <<pc, arg, window, df, found, input, gsVars, dlVars>>

\* lines 43-47: shift the apply result, multiply, return the copy
TrendFollowingReturn(t) ==
    /\ pc[t] = "apply"
    /\ row[t] > Len(df[t].price)
    /\ df' = [df EXCEPT ![t] = WithStrategy(df[t], applied[t])]
    /\ pc' = [pc EXCEPT ![t] = "done"]
    /\ input' = [input EXCEPT ![t] = CallerTable(@, df'[t])]
    /\ UNCHANGED <<position, arg, window, row, applied, found, gsVars, dlVars>>

\* the caller lets go of the table a finished call returned; of the call
\* only the module-level `position` stays behind
ReleaseResult(t) ==
    /\ pc[t] = "done"
    /\ pc' = [pc EXCEPT ![t] = "idle"]
    /\ arg' = [arg EXCEPT ![t] = <<>>]
    /\ window' = [window EXCEPT ![t] = 1]
    /\ df' = [df EXCEPT ![t] = EmptyDf]
    /\ row' = [row EXCEPT ![t] = 1]
    /\ applied' = [applied EXCEPT ![t] = <<>>]
    /\ found' = [found EXCEPT ![t] = 0]
    /\ input' = [input EXCEPT ![t] = EmptyDf]
    /\ UNCHANGED <<position, gsVars, dlVars>>

\* lines 96-105: grid_search(data, price_col, strategy_col, window_range)
GridSearchCall ==
    /\ gsPc = "idle"
    /\ pc[Main] = "idle"
    /\ \E prices \in PriceSeries, range \in WindowRanges :
          /\ data' = prices
          /\ input' = [input EXCEPT ![Main] = PriceTable(prices)]
          /\ window_range' = range
    /\ idx' = 1
    /\ optimal_window' = None
    /\ max_objective_value' = NegInf
    /\ results' = <<>>
    /\ gsPc' = "loop"
    /\ UNCHANGED <<position, pc, arg, window, df, row, applied, found,
                   returned, dlVars>>

\* lines 107-115: one pass of the for loop
GridSearchIteration ==
    /\ gsPc = "loop"
    /\ idx <= Len(window_range)
    /\ LET run == TrendFollowing(position, data, window_range[idx])
       IN  /\ df' = [df EXCEPT ![Main] = WithMetrics(run.df)]
           /\ applied' = [applied EXCEPT ![Main] = run.applied]
    /\ position' = applied'[Main][Len(data)]
    /\ input' = [input EXCEPT ![Main] = CallerTable(@, df'[Main])]
    /\ arg' = [arg EXCEPT ![Main] = data]
    /\ window' = [window EXCEPT ![Main] = window_range[idx]]
    /\ row' = [row EXCEPT ![Main] = Len(data) + 1]
    /\ \E m \in Mags :
          LET window_size == window_range[idx]
              objective_value ==
                  ObjectiveValue(ObjectiveClass(MetricsOf(df'[Main])), m)
          IN  /\ results' = Append(results, <<window_size, objective_value>>)
              /\ IF Better(objective_value, max_objective_value)
                 THEN /\ max_objective_value' = objective_value
                      /\ optimal_window' = window_size
                 ELSE UNCHANGED <<max_objective_value, optimal_window>>
    /\ idx' = idx + 1
    /\ UNCHANGED <<pc, found, gsPc, data, window_range, returned, dlVars>>

\* line 117: the loop is over, optimal_window is returned
GridSearchReturn ==
    /\ gsPc = "loop"
    /\ idx > Len(window_range)
    /\ gsPc' = "done"
    /\ returned' = <<optimal_window>>
    /\ UNCHANGED <<position, tfVars, data, window_range, idx, optimal_window,
                   max_objective_value, results, dlVars>>

\* the caller lets go of what a finished grid_search returned
ReleaseSearch ==
    /\ gsPc = "done"
    /\ gsPc' = "idle"
    /\ data' = <<>>
    /\ window_range' = <<>>
    /\ idx' = 1
    /\ optimal_window' = None
    /\ max_objective_value' = NegInf
    /\ results' = <<>>
    /\ returned' = <<>>
    /\ arg' = [arg EXCEPT ![Main] = <<>>]
    /\ window' = [window EXCEPT ![Main] = 1]
    /\ df' = [df EXCEPT ![Main] = EmptyDf]
    /\ row' = [row EXCEPT ![Main] = 1]
    /\ applied' = [applied EXCEPT ![Main] = <<>>]
    /\ input' = [input EXCEPT ![Main] = EmptyDf]
    /\ UNCHANGED <<position, pc, found, dlVars>>

\* two threads of one process call trend_following at the same time
ParallelCall(t) ==
    /\ pc[t] = "idle"
    /\ \E prices \in ParSeries, w \in Windows :
          TrendFollowingEnter(t, prices, w)
    /\ UNCHANGED <<gsVars, dlVars>>

\* line 6: a caller invokes download_crypto_data(..., retries, delay)
DownloadCall ==
    /\ dlPc = "idle"
    /\ \E r \in 0..MaxRetries, d \in 1..MaxDelay :
          /\ retries' = r
          /\ delay' = d
    /\ dlPc' = "loop"
    /\ UNCHANGED <<position, tfVars, gsVars, attempts, waited, lastOutcome,
                   fetched, dlResult, csv>>

\* lines 26-46: a pass whose request succeeds: the table is built, written
\* to the file and returned
AttemptSucceeds ==
    /\ dlPc = "loop"
    /\ MoreAttempts(attempts, retries)
    /\ attempts' = attempts + 1
    /\ lastOutcome' = "ok"
    /\ \E raw \in Payloads : fetched' = raw
    /\ csv' = [exists |-> TRUE, rows |-> Ingest(fetched')]
    /\ dlResult' = [kind |-> "data", table |-> csv'.rows]
    /\ dlPc' = "done"
    /\ UNCHANGED <<position, tfVars, gsVars, retries, delay, waited>>

\* lines 26-55: a pass that ends in an exception before the table is
\* written: caught by an except clause, or propagating to the caller
AttemptFails ==
    /\ dlPc = "loop"
    /\ MoreAttempts(attempts, retries)
    /\ attempts' = attempts + 1
    /\ \E kind \in Outcomes \ {"ok"} :
          /\ lastOutcome' = kind
          /\ IF Retried(kind)
             THEN dlPc' = "sleep" /\ UNCHANGED dlResult
             ELSE dlPc' = "done" /\ dlResult' = [kind |-> "raised", table |-> <<>>]
    /\ UNCHANGED <<position, tfVars, gsVars, retries, delay, waited, fetched, csv>>

\* lines 58-59: time.sleep(delay) after a caught exception
Sleep ==
    /\ dlPc = "sleep"
    /\ waited' = waited + delay
    /\ dlPc' = "loop"
    /\ UNCHANGED <<position, tfVars, gsVars, retries, delay, attempts,
                   lastOutcome, fetched, dlResult, csv>>

\* lines 62-64: the loop is over without a return
DownloadExhausted ==
    /\ dlPc = "loop"
    /\ ~MoreAttempts(attempts, retries)
    /\ dlResult' = [kind |-> "none", table |-> <<>>]
    /\ dlPc' = "done"
    /\ UNCHANGED <<position, tfVars, gsVars, retries, delay, attempts, waited,
                   lastOutcome, fetched, csv>>

\* trend_following called again and again by one thread
Next ==
    \/ TrendFollowingCall(Main)
    \/ UpdatePositionStep(Main)
    \/ TrendFollowingReturn(Main)
    \/ ReleaseResult(Main)

Spec == Init /\ [][Next]_vars

\* grid_search called again and again by one thread
NextSearch ==
    \/ GridSearchCall
    \/ GridSearchIteration
    \/ GridSearchReturn
    \/ ReleaseSearch

SpecSearch == Init /\ [][NextSearch]_vars

\* trend_following calls of two threads, interleaved row by row
NextPar ==
    \E t \in Threads :
        \/ ParallelCall(t)
        \/ UpdatePositionStep(t)
        \/ TrendFollowingReturn(t)
        \/ ReleaseResult(t)

SpecPar == Init /\ [][NextPar]_vars

\* one download_crypto_data call
NextDownload ==
    \/ DownloadCall
    \/ AttemptSucceeds
    \/ AttemptFails
    \/ Sleep
    \/ DownloadExhausted

SpecDownload == Init /\ [][NextDownload]_vars

\* ================================================================ claims
Done(t) == pc[t] = "done"

StrictlyIncreasing(p) == \A i \in 1..Len(p) - 1 : p[i] < p[i + 1]

ConstantSeries(p) == \A i \in 1..Len(p) : p[i] = p[1]

IsZero(a) == ~a.nan /\ a.n = 0

\* C1: in the table a finished trend_following call returns, the strategy
\* return of every period t after the first is the price's percent change
\* at t times the value update_position returned at t-1.
C1_LaggedSignal ==
    Done(Main) =>
        \A i \in 2..Len(df[Main].price) :
            LET p == df[Main].price
            IN  df[Main].strategy[i] =
                    FMul(Rat(p[i] - p[i - 1], p[i - 1]), Num(applied[Main][i - 1]))

\* a finished call in which the signal changes at a period whose price moved
C1_Witness ==
    /\ Done(Main)
    /\ \E i \in 2..Len(df[Main].price) :
          /\ applied[Main][i] # applied[Main][i - 1]
          /\ df[Main].price[i] # df[Main].price[i - 1]
          /\ applied[Main][i - 1] = 1

\* C2: every update_position step moves Flat to Long exactly when the close
\* is above both averages, Long to Flat exactly when the close is at or
\* below one of them, and otherwise holds the state; it returns the new state.
C2_TransitionRelation ==
    [][(pc[Main] = "apply" /\ row'[Main] = row[Main] + 1) =>
          LET r == row[Main]
              close == Num(df[Main].price[r])
              sma == df[Main].SMA[r]
              ema == df[Main].EMA[r]
              entry == FGt(close, sma) /\ FGt(close, ema)
              exit == FLe(close, sma) \/ FLe(close, ema)
          IN  /\ position = 0 => position' = (IF entry THEN 1 ELSE 0)
              /\ position = 1 => position' = (IF exit THEN 0 ELSE 1)
              /\ position \notin {0, 1} => position' = position
              /\ applied'[Main] = Append(applied[Main], position')]_vars

\* a call that went Flat -> Long, held Long, and went Long -> Flat
C2_Witness ==
    /\ pc[Main] = "apply"
    /\ \E i \in 1..Len(applied[Main]) - 3 :
          /\ applied[Main][i] = 0
          /\ applied[Main][i + 1] = 1
          /\ applied[Main][i + 2] = 1
          /\ applied[Main][i + 3] = 0

\* C3: whatever value earlier calls left in `position`, a call starts its
\* row-wise updates with `position` Flat (0), and when finished it returns
\* the position and strategy-return series that a call starting from Flat
\* computes for the same table and window.
C3_FreshEveryRun ==
    /\ (pc[Main] = "apply" /\ row[Main] = 1) => position = 0
    /\ Done(Main) =>
          LET d == WithIndicators(arg[Main], window[Main])
              alone == ApplyRows(0, d, 1, <<>>)
              pos == [i \in 1..Len(alone) |->
                         IF i = 1 THEN NaN ELSE Num(alone[i - 1])]
          IN  /\ applied[Main] = alone
              /\ df[Main].position = pos
              /\ df[Main].strategy = StrategyReturns(arg[Main], pos)

\* a finished call that found `position` Long on entry, on a table whose
\* first row a Long state would keep Long
C3_Witness ==
    /\ Done(Main)
    /\ found[Main] = 1
    /\ window[Main] > 1
    /\ Len(arg[Main]) >= 2

\* C4: a candidate whose Max Drawdown is 0 is not the window grid_search
\* returns (stated for the candidate of the last pass, whose table the
\* finished search still holds).
C4_ZeroDrawdownExcluded ==
    (gsPc = "done" /\ Len(results) > 0
        /\ IsZero(SeriesMax(df[Main].drawdown)))
    => optimal_window # window[Main]

\* C5: on a constant-price table grid_search ends with every candidate's
\* objective NaN, one result per candidate, and optimal_window still None.
C5_ConstantPriceNoWindow ==
    (gsPc = "done" /\ ConstantSeries(data)) =>
        /\ optimal_window = None
        /\ Len(results) = Len(window_range)
        /\ \A i \in 1..Len(results) : results[i][2] = ONaN

\* a finished search over several candidates on a constant table of
\* several rows
C5_Witness ==
    /\ gsPc = "done"
    /\ ConstantSeries(data)
    /\ Len(data) >= 3
    /\ Len(window_range) >= 2
    /\ Len(results) = Len(window_range)

\* C6: grid_search returns the first candidate, in iteration order, whose
\* objective value no candidate's value exceeds (NaN is no value); it
\* returns None exactly when no candidate's value exceeds -inf.
C6_FirstMaximum ==
    gsPc = "done" =>
        /\ Len(results) = Len(window_range)
        /\ \A i \in 1..Len(results) : results[i][1] = window_range[i]
        /\ IF optimal_window = None
           THEN \A i \in 1..Len(results) : ~OGt(results[i][2], NegInf)
           ELSE \E j \in 1..Len(results) :
                   /\ results[j][1] = optimal_window
                   /\ results[j][2].k # "nan"
                   /\ results[j][2] = max_objective_value
                   /\ \A i \in 1..Len(results) : ~OGt(results[i][2], results[j][2])
                   /\ \A i \in 1..j - 1 :
                         results[i][2].k = "nan" \/ OGt(results[j][2], results[i][2])

\* a finished search in which two candidates share the highest finite
\* value and the earlier one is returned
C6_Witness ==
    /\ gsPc = "done"
    /\ \E i, j \in 1..Len(results) :
          /\ i < j
          /\ results[i][2].k = "num"
          /\ results[i][2] = results[j][2]
          /\ optimal_window = results[i][1]
    /\ \E l \in 1..Len(results) : results[l][2].k = "nan"

\* C7: at a row where SMA or EMA is NaN update_position returns Flat, and
\* the first window-1 values it returns in a call are Flat.
C7_NoEntryWhileUndefined ==
    \A i \in 1..Len(applied[Main]) :
        /\ (IsNaN(df[Main].SMA[i]) \/ IsNaN(df[Main].EMA[i])) => applied[Main][i] = 0
        /\ i < window[Main] => (IsNaN(df[Main].SMA[i]) /\ applied[Main][i] = 0)

\* a call whose close was above the EMA during the SMA warm-up and which
\* entered Long once the SMA was defined
C7_Witness ==
    /\ Done(Main)
    /\ window[Main] >= 3
    /\ \E i \in 1..Len(applied[Main]) :
          /\ i < window[Main]
          /\ FGt(Num(df[Main].price[i]), df[Main].EMA[i])
    /\ \E i \in 1..Len(applied[Main]) : applied[Main][i] = 1

\* C8 as stated: with window 1 on a strictly increasing table every value
\* update_position returns is 0 and every strategy return is zero.
C8_AllZero ==
    (Done(Main) /\ window[Main] = 1 /\ StrictlyIncreasing(arg[Main])) =>
        /\ \A i \in 1..Len(applied[Main]) : applied[Main][i] = 0
        /\ \A i \in 1..Len(arg[Main]) : IsZero(df[Main].strategy[i])

\* C8 amended: every value update_position returns is 0, the strategy
\* return is zero at every period after the first, and at the first period
\* the lagged position and the strategy return are NaN.
C8_ZeroAfterFirst ==
    (Done(Main) /\ window[Main] = 1 /\ StrictlyIncreasing(arg[Main])) =>
        /\ \A i \in 1..Len(applied[Main]) : applied[Main][i] = 0
        /\ \A i \in 2..Len(arg[Main]) :
              IsZero(df[Main].position[i]) /\ IsZero(df[Main].strategy[i])
        /\ IsNaN(df[Main].position[1])
        /\ IsNaN(df[Main].strategy[1])

\* a finished window-1 call on a strictly increasing table of several rows
C8_Witness ==
    /\ Done(Main)
    /\ window[Main] = 1
    /\ StrictlyIncreasing(arg[Main])
    /\ Len(arg[Main]) >= 3

\* C9: `position` and every value update_position has returned are 0 or 1.
C9_PositionInRange ==
    /\ position \in {0, 1}
    /\ \A i \in 1..Len(applied[Main]) : applied[Main][i] \in {0, 1}

\* a call in mid-apply that is Long after having been Long and Flat before
C9_Witness ==
    /\ pc[Main] = "apply"
    /\ position = 1
    /\ \E i, j \in 1..Len(applied[Main]) :
          i < j /\ applied[Main][i] = 1 /\ applied[Main][j] = 0

\* C10: when the calls of two threads interleave, each finished call has
\* the values update_position returns in a call that runs alone.
C10_IndependentRuns ==
    \A t \in Threads :
        Done(t) =>
            applied[t] = ApplyRows(0, WithIndicators(arg[t], window[t]), 1, <<>>)


\* C11: in the table a finished trend_following call returns, the lagged
\* position and the strategy return of the first timestamp are NaN
\* (missing, not zero), and the lagged position of every later timestamp
\* is defined.
C11_FirstEntryMissing ==
    Done(Main) =>
        /\ IsNaN(df[Main].position[1])
        /\ IsNaN(df[Main].strategy[1])
        /\ \A i \in 2..Len(df[Main].position) : ~IsNaN(df[Main].position[i])

\* a finished call on several rows whose lagged position is Long somewhere
C11_Witness ==
    /\ Done(Main)
    /\ Len(df[Main].position) >= 3
    /\ \E i \in 2..Len(df[Main].position) : df[Main].position[i] = Num(1)

\* the table of the last pass has its cumulative-return and drawdown columns
HasDrawdown == Len(df[Main].drawdown) > 0

\* the cumulative return at i is a new running high
NewHigh(c, i) ==
    /\ ~IsNaN(c[i])
    /\ \A j \in 1..i - 1 : IsNaN(c[j]) \/ FGt(c[i], c[j])

\* C12 as stated: the drawdown curve is >= 0 at every index, 0 at every
\* new high of the cumulative return, and Max Drawdown is >= every value
\* of the curve.
C12_DrawdownEverywhere ==
    HasDrawdown =>
        LET dd == df[Main].drawdown
            mdd == SeriesMax(dd)
        IN  /\ \A i \in 1..Len(dd) : FLe(Num(0), dd[i])
            /\ \A i \in 1..Len(dd) : NewHigh(df[Main].cumulative, i) => IsZero(dd[i])
            /\ \A i \in 1..Len(dd) : FLe(dd[i], mdd)

\* C12 amended: the same at every index whose strategy return is defined;
\* where the strategy return is NaN (the first index) the drawdown is NaN,
\* and Max Drawdown is NaN when the curve has no defined value.
C12_DrawdownWhereDefined ==
    HasDrawdown =>
        LET dd == df[Main].drawdown
            mdd == SeriesMax(dd)
        IN  /\ \A i \in 1..Len(dd) :
                  IF IsNaN(df[Main].strategy[i]) THEN IsNaN(dd[i])
                  ELSE FLe(Num(0), dd[i]) /\ FLe(dd[i], mdd)
            /\ \A i \in 1..Len(dd) : NewHigh(df[Main].cumulative, i) => IsZero(dd[i])
            /\ IsNaN(mdd) <=> \A i \in 1..Len(dd) : IsNaN(dd[i])

\* a pass whose curve rises to a high, falls below it, and has its largest
\* drawdown before the last row
C12_Witness ==
    /\ HasDrawdown
    /\ \E i, j \in 1..Len(df[Main].drawdown) :
          /\ i < j
          /\ i > 1
          /\ NewHigh(df[Main].cumulative, i)
          /\ FGt(df[Main].cumulative[i], Num(0))
          /\ FGt(df[Main].drawdown[j], Num(0))

\* C13: for a table of fewer than 2 rows, and for one whose annualized
\* volatility is 0, return_metrics raises an error or returns a NaN Sharpe
\* ratio together with a diagnostic.
C13_FailsOnDegenerate ==
    HasDrawdown =>
        LET m == MetricsOf(df[Main])
        IN  (Len(df[Main].price) < 2 \/ m.annualized_vol = CNum(0)) =>
                \/ ReturnMetricsRaises(df[Main])
                \/ m.sharpe_ratio = CNaN /\ ReturnMetricsWarns(df[Main])

\* C14: what a finished grid_search returns is the optimal window together
\* with the list of [window, objective] pairs, one per candidate of
\* window_range in iteration order.
C14_ReturnsResults ==
    gsPc = "done" =>
        /\ returned = <<optimal_window, results>>
        /\ Len(results) = Len(window_range)
        /\ \A i \in 1..Len(results) : results[i][1] = window_range[i]

\* C15: download_crypto_data starts at most `retries` attempts; no attempt
\* follows a successful one, whose whole table it returns; it has slept
\* `delay` once for every attempt that ended in a request error; and it
\* returns None exactly after `retries` attempts that all ended so.
C15_BoundedRetries ==
    /\ attempts <= retries
    /\ dlPc = "loop" =>
          /\ waited = attempts * delay
          /\ attempts > 0 => lastOutcome \in RequestErrors
    /\ dlPc = "sleep" =>
          /\ waited = (attempts - 1) * delay
          /\ lastOutcome \in RequestErrors
    /\ (dlPc = "done" /\ lastOutcome = "ok") =>
          /\ dlResult = [kind |-> "data", table |-> Ingest(fetched)]
          /\ waited = (attempts - 1) * delay
    /\ (dlPc = "done" /\ lastOutcome \in RequestErrors \cup {"none"}) =>
          /\ dlResult = [kind |-> "none", table |-> <<>>]
          /\ attempts = retries
          /\ waited = retries * delay
    /\ dlResult.kind = "none" => (dlPc = "done" /\ lastOutcome # "ok")
    /\ dlResult.kind = "data" => (dlPc = "done" /\ lastOutcome = "ok")

\* a call that returned data at its last allowed attempt, after failures
C15_Witness ==
    /\ dlPc = "done"
    /\ dlResult.kind = "data"
    /\ retries = MaxRetries
    /\ attempts = retries
    /\ Len(fetched) >= 2

\* the index of the last fetched row that falls on date d
LastSeen(raw, d) ==
    CHOOSE i \in 1..Len(raw) :
        /\ DateOf(raw[i][1]) = d
        /\ \A j \in i + 1..Len(raw) : DateOf(raw[j][1]) # d

\* C16: the table returned and written to the file has one row per date
\* of the fetched data and no other row, and the row of a date carries the
\* price of the last fetched row that falls on that date.
C16_LastSeenPerDate ==
    dlResult.kind = "data" =>
        LET t == dlResult.table
        IN  /\ csv = [exists |-> TRUE, rows |-> t]
            /\ \A i, j \in 1..Len(t) : t[i][1] = t[j][1] => i = j
            /\ {t[i][1] : i \in 1..Len(t)} =
                   {DateOf(fetched[i][1]) : i \in 1..Len(fetched)}
            /\ \A i \in 1..Len(t) :
                  t[i][2] = fetched[LastSeen(fetched, t[i][1])][2]

\* fetched data with a date that occurs several times with different
\* prices, and a second date
C16_Witness ==
    /\ dlResult.kind = "data"
    /\ Len(dlResult.table) >= 2
    /\ \E i, j \in 1..Len(fetched) :
          /\ i < j
          /\ DateOf(fetched[i][1]) = DateOf(fetched[j][1])
          /\ fetched[i][1] # fetched[j][1]
          /\ fetched[i][2] # fetched[j][2]

\* C19: an attempt is followed by a sleep only when it ended in a request
\* error; an attempt that ends in an exception of another kind ends the
\* call at once: the exception reaches the caller, nothing is slept after
\* that attempt, and None is not returned.
C19_OnlyRequestErrorsRetried ==
    /\ dlPc = "sleep" => lastOutcome \in RequestErrors
    /\ (dlPc = "loop" /\ attempts > 0) => lastOutcome \in RequestErrors
    /\ lastOutcome = "other" =>
          /\ dlPc = "done"
          /\ dlResult = [kind |-> "raised", table |-> <<>>]
          /\ waited = (attempts - 1) * delay
    /\ dlResult.kind = "raised" => lastOutcome = "other"

\* a call whose second attempt ended in an exception of another kind,
\* with attempts still left
C19_Witness ==
    /\ lastOutcome = "other"
    /\ attempts = 2
    /\ retries > attempts
    /\ dlPc = "done"

\* C17: after every pass of the grid_search loop optimal_window is None or
\* a window of an earlier or this pass whose objective is
\* max_objective_value; max_objective_value has not decreased; and a pass
\* whose objective is NaN has changed neither of the two.
C17_LoopInvariant ==
    [][(gsPc = "loop" /\ idx' = idx + 1) =>
          /\ \/ optimal_window' = None
             \/ \E j \in 1..Len(results') :
                   /\ results'[j][1] = optimal_window'
                   /\ results'[j][2] = max_objective_value'
          /\ ~OGt(max_objective_value, max_objective_value')
          /\ max_objective_value'.k # "nan"
          /\ results'[Len(results')][2].k = "nan" =>
                /\ optimal_window' = optimal_window
                /\ max_objective_value' = max_objective_value]_vars

\* a search whose first pass had a NaN objective, whose second pass chose
\* a window, and whose third pass had a NaN objective again
C17_Witness ==
    /\ gsPc = "loop"
    /\ Len(results) = 3
    /\ results[1][2].k = "nan"
    /\ results[2][2].k # "nan"
    /\ results[3][2].k = "nan"
    /\ optimal_window = results[2][1]
    /\ max_objective_value = results[2][2]


\* C18: while grid_search runs and when it has finished, the caller's
\* table is the price column it was called with and nothing else; the
\* columns trend_following, return_metrics and max_drawdown add are in the
\* table of the pass alone.
C18_InputUnchanged ==
    gsPc \in {"loop", "done"} =>
        /\ input[Main] = PriceTable(data)
        /\ idx > 1 =>
              /\ df[Main].price = data
              /\ \A col \in {"SMA", "EMA", "position", "strategy",
                              "cumulative", "drawdown"} :
                    Len(df[Main][col]) = Len(data)

\* a finished search of several passes over several rows
C18_Witness ==
    /\ gsPc = "done"
    /\ Len(results) >= 2
    /\ Len(data) >= 3
    /\ input[Main].price = data
====
